---- MODULE Spec2Model ----
(***************************************************************************)
(* A model of the graph-rewriting merge trainer of complex_tokenization:   *)
(* the vertices of graph.py (Node, NodesSequence, Tree), the enumeration   *)
(* of merge candidates (get_merges), the rewriting (merge) and the         *)
(* selection loop of trainer.py (Trainer.train).                           *)
(***************************************************************************)
EXTENDS Integers, Sequences, FiniteSets, TLC

VARIABLES
    graph,                \* Trainer.graph
    merges,               \* Trainer.merges: the list of (token, nodes) records
    num_merges,           \* the argument of Trainer.train
    MAX_MERGE_SIZE,       \* the process-wide setting read by get_merges
    ONLY_MINIMAL_MERGES,  \* the process-wide setting read by get_merges and train
    pc,                   \* where train is: "loop", "done" (returned), "raised"
    initial,              \* history: the graph the Trainer was constructed with
    input,                \* history: the text that graph was built from
    arg_self,             \* a direct call self.merge(token, merge): the receiver
    arg_token,            \*   its token argument
    arg_merge,            \*   its merge argument
    results               \*   what the successive calls returned

vars == <<graph, merges, num_merges, MAX_MERGE_SIZE, ONLY_MINIMAL_MERGES, pc,
          initial, input, arg_self, arg_token, arg_merge, results>>

trainerVars == <<graph, merges, num_merges, MAX_MERGE_SIZE, ONLY_MINIMAL_MERGES,
                 pc, initial, input>>

callVars == <<arg_self, arg_token, arg_merge, results>>

(***************************************************************************)
(* Bounds of the model.                                                    *)
(***************************************************************************)
\* the byte values of the generated graphs are 1..NumBytes
NumBytes == 2
\* the generated flat sequences have 2..MaxLen tokens
MaxLen == 4
\* the generated runs of one repeated token have 1..MaxRun tokens
MaxRun == 7
\* train is called with num_merges in 0..MaxK
MaxK == 3
\* a direct call of merge is repeated on its own result up to MaxCalls times
MaxCalls == 2
\* the generated texts have 0..MaxPieces pieces
MaxPieces == 2

(***************************************************************************)
(* Vertices (graph.py).  Equality of vertices is equality of these         *)
(* records: Node.__eq__ compares value, and the dataclass-generated        *)
(* __eq__ of NodesSequence and Tree compares the fields of two instances   *)
(* of the same class.                                                      *)
(***************************************************************************)
Node(value) == [kind |-> "Node", value |-> value]

NodesSequence(nodes) == [kind |-> "NodesSequence", nodes |-> nodes]

Tree(root, children) == [kind |-> "Tree", root |-> root, children |-> children]

\* isinstance(v, Node)
IsNode(v) == v.kind = "Node"

\* the value None (what NodesSequence.__add__ returns when it falls through)
None == [kind |-> "None"]

\* an exception propagating out of a call
Raised == [kind |-> "Raised"]

Min(a, b) == IF a < b THEN a ELSE b

\* s[i:j] of Python, with 0-based i and exclusive j
Slice(s, i, j) == SubSeq(s, i + 1, Min(j, Len(s)))

RECURSIVE Bytes(_)
\* bytes(v): Node.__bytes__, NodesSequence.__bytes__, Tree.__bytes__
Bytes(v) ==
    LET RECURSIVE buffer(_, _)
        buffer(nodes, n) ==
            IF n = 0 THEN <<>> ELSE buffer(nodes, n - 1) \o Bytes(nodes[n])
    IN  CASE v.kind = "Node" -> v.value
          [] v.kind = "NodesSequence" -> buffer(v.nodes, Len(v.nodes))
          [] v.kind = "Tree" ->
                Bytes(v.root) \o buffer(v.children, Len(v.children))

\* b''.join(bytes(node) for node in nodes)
RECURSIVE JoinBytes(_)
JoinBytes(nodes) ==
    IF nodes = <<>> THEN <<>> ELSE Bytes(Head(nodes)) \o JoinBytes(Tail(nodes))

(***************************************************************************)
(* Enumeration of the merge candidates (get_merges), in the order of the   *)
(* generators.                                                             *)
(***************************************************************************)
RECURSIVE RunsFromShort(_, _, _)
\* RunsFrom with the bound of j one too low: range(i + 2, min(i + MAX, n))
RunsFromShort(nodes, i, j) ==
    IF j >= Min(i + MAX_MERGE_SIZE, Len(nodes)) THEN <<>>
    ELSE IF ONLY_MINIMAL_MERGES /\ j < Len(nodes) /\ ~IsNode(nodes[j + 1])
         THEN <<>>
         ELSE <<Slice(nodes, i, j)>> \o RunsFromShort(nodes, i, j + 1)

RECURSIVE RunsFromAlwaysGated(_, _, _)
\* RunsFrom with the gate applied whatever ONLY_MINIMAL_MERGES is
RunsFromAlwaysGated(nodes, i, j) ==
    IF j >= Min(i + MAX_MERGE_SIZE + 1, Len(nodes) + 1) THEN <<>>
    ELSE IF j < Len(nodes) /\ ~IsNode(nodes[j + 1])
         THEN <<>>
         ELSE <<Slice(nodes, i, j)>> \o RunsFromAlwaysGated(nodes, i, j + 1)

RECURSIVE RunsFromLong(_, _, _)
\* RunsFrom with the bound of j one too high: range(i + 2, min(i + MAX + 2, n + 1))
RunsFromLong(nodes, i, j) ==
    IF j >= Min(i + MAX_MERGE_SIZE + 2, Len(nodes) + 1) THEN <<>>
    ELSE IF ONLY_MINIMAL_MERGES /\ j < Len(nodes) /\ ~IsNode(nodes[j + 1])
         THEN <<>>
         ELSE <<Slice(nodes, i, j)>> \o RunsFromLong(nodes, i, j + 1)

RECURSIVE RunsFrom(_, _, _)
\* the inner loop of NodesSequence.get_merges for the start i, from j on
\* (i and j are the 0-based indices of the code)
RunsFrom(nodes, i, j) ==
    IF j >= Min(i + MAX_MERGE_SIZE + 1, Len(nodes) + 1) THEN <<>>
    ELSE IF ONLY_MINIMAL_MERGES /\ j < Len(nodes) /\ ~IsNode(nodes[j + 1])
         THEN <<>>                                              \* break
         ELSE <<Slice(nodes, i, j)>> \o RunsFrom(nodes, i, j + 1)

RECURSIVE RunsOf(_, _)
\* the outer loop of NodesSequence.get_merges, from the start i on: the
\* candidates a sequence yields at its own level
RunsOf(nodes, i) ==
    IF i >= Len(nodes) THEN <<>>
    ELSE RunsFrom(nodes, i, i + 2) \o RunsOf(nodes, i + 1)

RECURSIVE get_merges(_)

\* get_merges with the children of a Tree treated as adjacent, as the
\* children of a sequence are
get_mergesSiblings(v) ==
    LET RECURSIVE each(_, _)
        each(nodes, n) ==
            IF n = 0 THEN <<>> ELSE each(nodes, n - 1) \o get_merges(nodes[n])
    IN  CASE v.kind = "Node" -> <<>>
          [] v.kind = "NodesSequence" ->
                each(v.nodes, Len(v.nodes)) \o RunsOf(v.nodes, 0)
          [] v.kind = "Tree" ->
                get_merges(v.root) \o << <<v.root>> \o v.children >>
                    \o each(v.children, Len(v.children))
                    \o RunsOf(v.children, 0)

\* get_merges with a Node yielding the pair of itself with itself
get_mergesNodePair(v) ==
    LET RECURSIVE each(_, _)
        each(nodes, n) ==
            IF n = 0 THEN <<>> ELSE each(nodes, n - 1) \o get_merges(nodes[n])
    IN  CASE v.kind = "Node" -> << <<v, v>> >>
          [] v.kind = "NodesSequence" ->
                each(v.nodes, Len(v.nodes)) \o RunsOf(v.nodes, 0)
          [] v.kind = "Tree" ->
                get_merges(v.root) \o << <<v.root>> \o v.children >>
                    \o each(v.children, Len(v.children))

\* v.get_merges(), as the list of the tuples it yields
get_merges(v) ==
    LET RECURSIVE each(_, _)
        each(nodes, n) ==
            IF n = 0 THEN <<>> ELSE each(nodes, n - 1) \o get_merges(nodes[n])
    IN  CASE v.kind = "Node" -> <<>>
          [] v.kind = "NodesSequence" ->
                each(v.nodes, Len(v.nodes)) \o RunsOf(v.nodes, 0)
          [] v.kind = "Tree" ->
                get_merges(v.root) \o << <<v.root>> \o v.children >>
                    \o each(v.children, Len(v.children))

(***************************************************************************)
(* Rewriting (merge).                                                      *)
(***************************************************************************)
\* Node(value=token.value): an AttributeError when token is no Node
NewToken(token) == IF IsNode(token) THEN Node(token.value) ELSE Raised

\* whether one of the calls that built the list s raised
AnyRaised(s) == \E k \in 1..Len(s) : s[k] = Raised

RECURSIVE ScanOverlapping(_, _, _, _)
\* Scan advancing by 1, not by len(merge), after a match
ScanOverlapping(nodes, token, merge, i) ==
    IF i > Len(nodes) - Len(merge) THEN Slice(nodes, i, Len(nodes))
    ELSE IF Slice(nodes, i, i + Len(merge)) = merge
         THEN <<NewToken(token)>> \o ScanOverlapping(nodes, token, merge, i + 1)
         ELSE <<nodes[i + 1]>> \o ScanOverlapping(nodes, token, merge, i + 1)

RECURSIVE ScanOnce(_, _, _, _)
\* Scan leaving the loop after the first match
ScanOnce(nodes, token, merge, i) ==
    IF i > Len(nodes) - Len(merge) THEN Slice(nodes, i, Len(nodes))
    ELSE IF Slice(nodes, i, i + Len(merge)) = merge
         THEN <<NewToken(token)>> \o Slice(nodes, i + Len(merge), Len(nodes))
         ELSE <<nodes[i + 1]>> \o ScanOnce(nodes, token, merge, i + 1)

RECURSIVE Scan(_, _, _, _)
\* the while loop of NodesSequence.merge from index i on, with the tail
\* appended: the list out
Scan(nodes, token, merge, i) ==
    IF i > Len(nodes) - Len(merge) THEN Slice(nodes, i, Len(nodes))
    ELSE IF Slice(nodes, i, i + Len(merge)) = merge
         THEN <<NewToken(token)>> \o Scan(nodes, token, merge, i + Len(merge))
         ELSE <<nodes[i + 1]>> \o Scan(nodes, token, merge, i + 1)

\* TreeMatches comparing the root and the length only
TreeMatchesRoot(v, nodes) ==
    /\ nodes[1] = v.root
    /\ Len(nodes) = Len(v.children) + 1

\* Tree.merge's test that nodes is (self.root,) + self.children
TreeMatches(v, nodes) ==
    /\ nodes[1] = v.root
    /\ Len(nodes) = Len(v.children) + 1
    /\ \A k \in 1..Len(v.children) : nodes[k + 1] = v.children[k]

\* Merge without the recursion into the children of a sequence or a tree
MergeShallow(v, token, merge) ==
    CASE v.kind = "Node" -> v
      [] v.kind = "NodesSequence" ->
            LET out == Scan(v.nodes, token, merge, 0)
            IN  IF AnyRaised(out) THEN Raised
                ELSE IF Len(out) = 1 THEN out[1]
                ELSE NodesSequence(out)
      [] v.kind = "Tree" ->
            IF TreeMatches(v, merge) THEN NewToken(token) ELSE v

RECURSIVE Merge(_, _, _)
\* v.merge(token, merge): Node.merge, NodesSequence.merge, Tree.merge
Merge(v, token, merge) ==
    LET RECURSIVE each(_, _)
        each(s, n) ==
            IF n = 0 THEN <<>>
            ELSE each(s, n - 1) \o <<Merge(s[n], token, merge)>>
        mergeAll(s) == each(s, Len(s))
    IN  CASE v.kind = "Node" -> v
          [] v.kind = "NodesSequence" ->
                LET out == Scan(v.nodes, token, merge, 0)
                IN  IF AnyRaised(out) THEN Raised
                    ELSE IF Len(out) = 1 THEN out[1]
                    ELSE LET merged_nodes == mergeAll(out)
                         IN  IF AnyRaised(merged_nodes) THEN Raised
                             ELSE NodesSequence(merged_nodes)
          [] v.kind = "Tree" ->
                IF TreeMatches(v, merge) THEN NewToken(token)
                ELSE LET root == Merge(v.root, token, merge)
                         children == mergeAll(v.children)
                     IN  IF root = Raised \/ AnyRaised(children) THEN Raised
                         ELSE Tree(root, children)

(***************************************************************************)
(* The Forest (UnconnectedGraphs, which graphs/words.py imports from       *)
(* graph.py): an ordered tuple of subgraphs with no adjacency between      *)
(* them.  Its candidates are those of its subgraphs, and rewriting it      *)
(* gives the Forest of its rewritten subgraphs.  A Forest is the whole     *)
(* graph of a Trainer, never a child of another vertex.                    *)
(***************************************************************************)
UnconnectedGraphs(subgraphs) ==
    [kind |-> "UnconnectedGraphs", subgraphs |-> subgraphs]

\* self.graph.get_merges(), the graph a Forest or any other vertex
Candidates(v) ==
    LET RECURSIVE each(_, _)
        each(subgraphs, n) ==
            IF n = 0 THEN <<>>
            ELSE each(subgraphs, n - 1) \o get_merges(subgraphs[n])
    IN  IF v.kind = "UnconnectedGraphs"
        THEN each(v.subgraphs, Len(v.subgraphs))
        ELSE get_merges(v)

\* self.graph.merge(token, merge), the graph a Forest or any other vertex
Rewrite(v, token, merge) ==
    LET RECURSIVE each(_, _)
        each(subgraphs, n) ==
            IF n = 0 THEN <<>>
            ELSE each(subgraphs, n - 1) \o <<Merge(subgraphs[n], token, merge)>>
    IN  IF v.kind = "UnconnectedGraphs"
        THEN LET subgraphs == each(v.subgraphs, Len(v.subgraphs))
             IN  IF AnyRaised(subgraphs) THEN Raised
                 ELSE UnconnectedGraphs(subgraphs)
        ELSE Merge(v, token, merge)

(***************************************************************************)
(* The token of a merge: reduce(lambda x, y: x + y, nodes).                *)
(***************************************************************************)
\* Add with the values of two Nodes concatenated in the wrong order
AddSwapped(x, y) ==
    CASE x.kind = "Node" ->
            IF y.kind = "NodesSequence" THEN NodesSequence(<<x>> \o y.nodes)
            ELSE IF y.kind = "Node" THEN Node(y.value \o x.value)
            ELSE Raised
      [] x.kind = "NodesSequence" ->
            IF y.kind = "NodesSequence" THEN NodesSequence(x.nodes \o y.nodes)
            ELSE IF y.kind = "Node" THEN NodesSequence(x.nodes \o <<y>>)
            ELSE None
      [] OTHER -> Raised

\* x + y: Node.__add__ and NodesSequence.__add__; a Tree and None have no
\* __add__, and Node.__add__ reads other.value
Add(x, y) ==
    CASE x.kind = "Node" ->
            IF y.kind = "NodesSequence" THEN NodesSequence(<<x>> \o y.nodes)
            ELSE IF y.kind = "Node" THEN Node(x.value \o y.value)
            ELSE Raised
      [] x.kind = "NodesSequence" ->
            IF y.kind = "NodesSequence" THEN NodesSequence(x.nodes \o y.nodes)
            ELSE IF y.kind = "Node" THEN NodesSequence(x.nodes \o <<y>>)
            ELSE None
      [] OTHER -> Raised

RECURSIVE ReduceFrom(_, _, _)
ReduceFrom(acc, nodes, k) ==
    IF k > Len(nodes) THEN acc
    ELSE ReduceFrom(Add(acc, nodes[k]), nodes, k + 1)

\* reduce(lambda x, y: x + y, nodes)
Reduce(nodes) == ReduceFrom(nodes[1], nodes, 2)

(***************************************************************************)
(* The tally of the candidates: Counter(all_merges), a dict, which keeps   *)
(* its keys in the order of their first insertion.  A Counter is modelled  *)
(* as the list of its items (key, count) in that order.                    *)
(***************************************************************************)
\* the list s with its elements computed
Listed(s) == LET all(x) == TRUE IN SelectSeq(s, all)

\* Counter with every count 1, as if counter[key] = 1 stood for += 1
CounterOnce(items) ==
    LET first(k) == \A j \in 1..(k - 1) : items[j] # items[k]
        firsts == SelectSeq([k \in 1..Len(items) |-> k], first)
    IN  Listed([n \in 1..Len(firsts) |-> [key |-> items[firsts[n]], count |-> 1]])

\* Counter(items): the keys in the order of their first occurrence in items,
\* each with the number of its occurrences
Counter(items) ==
    LET first(k) == \A j \in 1..(k - 1) : items[j] # items[k]
        firsts == SelectSeq([k \in 1..Len(items) |-> k], first)
        count(key) == Cardinality({k \in 1..Len(items) : items[k] = key})
    IN  Listed([n \in 1..Len(firsts) |->
                   [key |-> items[firsts[n]], count |-> count(items[firsts[n]])]])

\* counter[key], 0 for a missing key
CountOf(counter, key) ==
    IF \E k \in 1..Len(counter) : counter[k].key = key
    THEN counter[CHOOSE k \in 1..Len(counter) : counter[k].key = key].count
    ELSE 0

\* Compression with the score len(k) * v
CompressionByLength(k, v) == Len(k) * v

\* the compression of a candidate k tallied v times: (len(k) - 1) * v
Compression(k, v) == (Len(k) - 1) * v

\* Counter({k: (len(k) - 1) * v for k, v in merges.items()})
merges_compression(counter) ==
    [k \in 1..Len(counter) |->
        [key |-> counter[k].key,
         count |-> Compression(counter[k].key, counter[k].count)]]

\* MostCommonIndex taking the last of the items of the greatest count
MostCommonIndexLast(counter) ==
    CHOOSE i \in 1..Len(counter) :
        /\ \A j \in 1..Len(counter) : counter[j].count <= counter[i].count
        /\ \A j \in (i + 1)..Len(counter) : counter[j].count < counter[i].count

\* the index of counter.most_common(1)[0]: the first item, in insertion
\* order, whose count is the greatest
MostCommonIndex(counter) ==
    CHOOSE i \in 1..Len(counter) :
        /\ \A j \in 1..Len(counter) : counter[j].count <= counter[i].count
        /\ \A j \in 1..(i - 1) : counter[j].count < counter[i].count

\* counter.most_common(1)[0][0]
MostCommon(counter) == counter[MostCommonIndex(counter)].key

\* all(isinstance(n, Node) for n in m)
AllNodes(m) == \A k \in 1..Len(m) : IsNode(m[k])

\* (m for m in all_merges if all(isinstance(n, Node) for n in m))
OnlyNodes(all_merges) == SelectSeq(all_merges, AllNodes)

\* all_merges of Trainer.train for the graph g: the candidates, filtered when
\* ONLY_MINIMAL_MERGES is set
AllMerges(g) ==
    IF ONLY_MINIMAL_MERGES THEN OnlyNodes(Candidates(g)) ELSE Candidates(g)

(***************************************************************************)
(* The graph builders (graphs/units.py, graphs/words.py).  A text is the   *)
(* list of its bytes; the grapheme clusters of a text and the pieces the   *)
(* pretokenizer cuts are inputs of the model.                              *)
(***************************************************************************)
\* nodes[0] if len(nodes) == 1 else NodesSequence(nodes=tuple(nodes))
Wrap(nodes) == IF Len(nodes) = 1 THEN nodes[1] ELSE NodesSequence(nodes)

\* utf8(s), s the bytes of the string
utf8(s) == Wrap([k \in 1..Len(s) |-> Node(<<s[k]>>)])

\* utf8_clusters(s), s the list of the clusters of the string
utf8_clusters(s) == Wrap([k \in 1..Len(s) |-> utf8(s[k])])

\* WordsGraph with the pieces connected whatever the argument says
WordsGraphConnected(text, connected) ==
    Wrap([k \in 1..Len(text) |-> utf8_clusters(text[k])])

\* words(text, connected), text the list of the pieces that pretokenize cuts
WordsGraph(text, connected) ==
    LET nodes == [k \in 1..Len(text) |-> utf8_clusters(text[k])]
    IN  IF Len(nodes) = 1 THEN nodes[1]
        ELSE IF connected THEN NodesSequence(nodes)
        ELSE UnconnectedGraphs(nodes)

\* words(text), connected by default
words(text) == WordsGraph(text, TRUE)

\* sentence_to_graph(sentence), sentence the list re.split(r'(\s+)', ...)
\* returns: words and runs of whitespace in turn
sentence_to_graph(sentence) == Wrap([k \in 1..Len(sentence) |-> utf8(sentence[k])])

\* the clusters of an ASCII string: one per byte
Ascii(s) == [k \in 1..Len(s) |-> <<s[k]>>]

(***************************************************************************)
(* The graphs a run starts from.                                           *)
(***************************************************************************)
ByteStrings(n) == UNION {[1..m -> 1..NumBytes] : m \in 1..n}

\* the single-byte tokens
Leaf == {utf8(s) : s \in ByteStrings(1)}

\* the byte-leaf graphs of the strings of 1..MaxLen bytes
Flat == {utf8(s) : s \in ByteStrings(MaxLen)}

\* the parts of a nested graph: a token, a pair of tokens, a unary tree
Part ==
    Leaf \cup {NodesSequence(<<a, b>>) : a \in Leaf, b \in Leaf}
         \cup {Tree(a, <<b>>) : a \in Leaf, b \in Leaf}

\* the byte-leaf graphs of the strings of one repeated byte
Runs == {utf8([k \in 1..n |-> b]) : n \in 1..MaxRun, b \in 1..NumBytes}

\* sequences of two parts, and of two tokens with a part before or after
Nested ==
    {NodesSequence(<<x, y>>) : x \in Part, y \in Part}
        \cup {NodesSequence(<<x, y, z>>) : x \in Part, y \in Leaf, z \in Leaf}
        \cup {NodesSequence(<<x, y, z>>) : x \in Leaf, y \in Leaf, z \in Part}

\* trees over a token with one part, or a part and a token, as children
Trees ==
    {Tree(r, <<x>>) : r \in Leaf, x \in Part}
        \cup {Tree(r, <<x, y>>) : r \in Leaf, x \in Part, y \in Leaf}
        \cup {Tree(r, <<x, y>>) : r \in Leaf, x \in Leaf, y \in Part}

\* utf8('lalaland') (tests/test_graph.py)
Lalaland == utf8(<<108, 97, 108, 97, 108, 97, 110, 100>>)

\* words('hi bye'): the pieces 'hi' and ' bye' (tests/test_graph.py)
HiBye == words(<<Ascii(<<104, 105>>), Ascii(<<32, 98, 121, 101>>)>>)

\* a tree in a tree, over tokens: Tree(r, [x, Tree(r, [y, z])])
Nests ==
    {Tree(r, <<x, Tree(r, <<y, z>>)>>) : r \in Leaf, x \in Leaf, y \in Leaf,
                                         z \in Leaf}

Graphs == Flat \cup Runs \cup Nested \cup Trees \cup Nests \cup {Lalaland, HiBye}

\* the values the repository gives MAX_MERGE_SIZE: 2 (BPE), the default 3, and
\* 10 (the tests of words)
MergeSizes == {2, 3, 10}

\* no text: the graph was given as it is
NoInput ==
    [builder |-> "none", text |-> <<>>, connected |-> TRUE, sentence |-> <<>>]

(***************************************************************************)
(* Trainer.train: one action per way an iteration of the loop can end.     *)
(***************************************************************************)
Init ==
    /\ initial \in Graphs
    /\ graph = initial
    /\ merges = <<>>
    /\ num_merges \in 0..MaxK
    /\ MAX_MERGE_SIZE \in MergeSizes
    /\ ONLY_MINIMAL_MERGES \in BOOLEAN
    /\ pc = "loop"
    /\ input = NoInput
    /\ arg_self = None
    /\ arg_token = None
    /\ arg_merge = <<>>
    /\ results = <<>>

\* nodes = merges_compression.most_common(1)[0][0]
Selected(g) == MostCommon(merges_compression(Counter(AllMerges(g))))

\* the loop goes on: the cap is not reached and there is a candidate
Continues ==
    /\ pc = "loop"
    /\ Len(merges) < num_merges
    /\ Len(Counter(AllMerges(graph))) # 0

\* an iteration that breaks: the cap is reached, or no candidate is left
TrainReturn ==
    /\ pc = "loop"
    /\ \/ Len(merges) >= num_merges
       \/ Len(Counter(AllMerges(graph))) = 0
    /\ pc' = "done"
    /\ UNCHANGED <<graph, merges, num_merges, MAX_MERGE_SIZE,
                   ONLY_MINIMAL_MERGES, initial, input, callVars>>

\* TrainMerge taking any of the candidates of the greatest compression, as
\* if the tally kept no order
TrainMergeAny ==
    /\ Continues
    /\ LET counter == merges_compression(Counter(AllMerges(graph)))
       IN  \E i \in 1..Len(counter) :
               /\ \A j \in 1..Len(counter) : counter[j].count <= counter[i].count
               /\ LET nodes == counter[i].key
                      token == Reduce(nodes)
                      new == Rewrite(graph, token, nodes)
                  IN  /\ token # Raised
                      /\ new # Raised
                      /\ graph' = new
                      /\ merges' = Append(merges, [token |-> token, nodes |-> nodes])
    /\ UNCHANGED <<num_merges, MAX_MERGE_SIZE, ONLY_MINIMAL_MERGES, pc,
                   initial, input, callVars>>

\* TrainMerge without the test of the cap
TrainMergePastCap ==
    /\ pc = "loop"
    /\ Len(Counter(AllMerges(graph))) # 0
    /\ LET nodes == Selected(graph)
           token == Reduce(nodes)
           new == Rewrite(graph, token, nodes)
       IN  /\ token # Raised
           /\ new # Raised
           /\ graph' = new
           /\ merges' = Append(merges, [token |-> token, nodes |-> nodes])
    /\ UNCHANGED <<num_merges, MAX_MERGE_SIZE, ONLY_MINIMAL_MERGES, pc,
                   initial, input, callVars>>

\* an iteration that rewrites the graph and records the merge
TrainMerge ==
    /\ Continues
    /\ LET nodes == Selected(graph)
           token == Reduce(nodes)
           new == Rewrite(graph, token, nodes)
       IN  /\ token # Raised
           /\ new # Raised
           /\ graph' = new
           /\ merges' = Append(merges, [token |-> token, nodes |-> nodes])
    /\ UNCHANGED <<num_merges, MAX_MERGE_SIZE, ONLY_MINIMAL_MERGES, pc,
                   initial, input, callVars>>

\* an iteration in which reduce or merge raises: train is left by the
\* exception, before self.graph and self.merges are assigned
TrainRaise ==
    /\ Continues
    /\ LET nodes == Selected(graph)
           token == Reduce(nodes)
       IN  token = Raised \/ Rewrite(graph, token, nodes) = Raised
    /\ pc' = "raised"
    /\ UNCHANGED <<graph, merges, num_merges, MAX_MERGE_SIZE,
                   ONLY_MINIMAL_MERGES, initial, input, callVars>>

Next == TrainReturn \/ TrainMerge \/ TrainRaise

Spec == Init /\ [][Next]_vars

(***************************************************************************)
(* A second run: once train has returned or raised, another Trainer is     *)
(* constructed with the same graph and train is called with the same       *)
(* num_merges under the same settings.  What the first run left is kept in *)
(* results.                                                                *)
(***************************************************************************)
\* the graphs of the runs that are run twice
Reruns == Flat \cup Trees \cup Nests \cup {Lalaland, HiBye}

InitRerun == Init /\ initial \in Reruns

Rerun ==
    /\ pc \in {"done", "raised"}
    /\ results = <<>>
    /\ results' = <<[merges |-> merges, graph |-> graph, pc |-> pc]>>
    /\ graph' = initial
    /\ merges' = <<>>
    /\ pc' = "loop"
    /\ UNCHANGED <<num_merges, MAX_MERGE_SIZE, ONLY_MINIMAL_MERGES, initial,
                   input, arg_self, arg_token, arg_merge>>

NextRerun == Next \/ Rerun

RerunSpec == InitRerun /\ [][NextRerun]_vars

(***************************************************************************)
(* train called again on the same Trainer, with any num_merges: the graph  *)
(* and the merges are those the earlier calls left.  results keeps what    *)
(* they were at each further call.                                         *)
(***************************************************************************)
InitAgain == Init /\ initial \in Reruns

TrainAgain ==
    /\ pc \in {"done", "raised"}
    /\ Len(results) < MaxCalls
    /\ num_merges' \in 0..MaxK
    /\ pc' = "loop"
    /\ results' = Append(results, [merges |-> merges, graph |-> graph])
    /\ UNCHANGED <<graph, merges, MAX_MERGE_SIZE, ONLY_MINIMAL_MERGES, initial,
                   input, arg_self, arg_token, arg_merge>>

NextAgain == Next \/ TrainAgain

AgainSpec == InitAgain /\ [][NextAgain]_vars

(***************************************************************************)
(* Longer runs of train: up to MaxDeep merges, on the graphs of Graphs and *)
(* on a graph of two nested Sequences over the bytes d and x,              *)
(* ((d (x d) d) ((d x) d d)).                                              *)
(***************************************************************************)
\* the greatest num_merges of the longer runs
MaxDeep == 6

Twice ==
    LET d == Node(<<2>>)
        x == Node(<<1>>)
    IN  NodesSequence(<<NodesSequence(<<d, NodesSequence(<<x, d>>), d>>),
                        NodesSequence(<<NodesSequence(<<d, x>>), d, d>>)>>)

InitDeep ==
    /\ initial \in Flat \cup Nested \cup Trees \cup {Twice}
    /\ graph = initial
    /\ merges = <<>>
    /\ num_merges \in 0..MaxDeep
    /\ MAX_MERGE_SIZE \in MergeSizes
    /\ ONLY_MINIMAL_MERGES \in BOOLEAN
    /\ pc = "loop"
    /\ input = NoInput
    /\ arg_self = None
    /\ arg_token = None
    /\ arg_merge = <<>>
    /\ results = <<>>

DeepSpec == InitDeep /\ [][Next]_vars

(***************************************************************************)
(* Setting the configuration before training.  The settings are module     *)
(* globals with the defaults 3 and True; a caller assigns them and then    *)
(* constructs a Trainer and calls train.                                   *)
(***************************************************************************)
\* the values a caller assigns to MAX_MERGE_SIZE
ConfigSizes == {0, 1, 2, 3}

InitConfig ==
    /\ initial \in Flat \cup Trees
    /\ graph = initial
    /\ merges = <<>>
    /\ num_merges \in 0..MaxK
    /\ MAX_MERGE_SIZE = 3
    /\ ONLY_MINIMAL_MERGES = TRUE
    /\ pc = "configure"
    /\ input = NoInput
    /\ arg_self = None
    /\ arg_token = None
    /\ arg_merge = <<>>
    /\ results = <<>>

\* MAX_MERGE_SIZE = size; ONLY_MINIMAL_MERGES = minimal
Configure ==
    /\ pc = "configure"
    /\ MAX_MERGE_SIZE' \in ConfigSizes
    /\ ONLY_MINIMAL_MERGES' \in BOOLEAN
    /\ pc' = "loop"
    /\ UNCHANGED <<graph, merges, num_merges, initial, input, callVars>>

NextConfig == Configure \/ Next

ConfigSpec == InitConfig /\ [][NextConfig]_vars

(***************************************************************************)
(* Training on the graph that a builder makes of a text.                   *)
(***************************************************************************)
\* the pieces of the generated texts: one or two single-byte clusters, and
\* two single-byte clusters followed by a cluster of two bytes
Pieces ==
    {Ascii(s) : s \in UNION {[1..m -> {1, 2}] : m \in 1..2}}
        \cup {<< <<1>>, <<1>>, <<1, 2>> >>}

\* the generated texts, the empty text among them
Texts == UNION {[1..m -> Pieces] : m \in 0..MaxPieces}

\* 'the teacher teaches the thick thing', as pretokenize cuts it
\* (tests/tokenizers/test_bpe.py)
TheTeacher ==
    <<Ascii(<<116, 104, 101>>),
      Ascii(<<32, 116, 101, 97, 99, 104, 101, 114>>),
      Ascii(<<32, 116, 101, 97, 99, 104, 101, 115>>),
      Ascii(<<32, 116, 104, 101>>),
      Ascii(<<32, 116, 104, 105, 99, 107>>),
      Ascii(<<32, 116, 104, 105, 110, 103>>)>>

\* what re.split(r'(\s+)', sentence) returns for the generated sentences: one
\* word, or two words around a space, a word at either end possibly empty
Sentences ==
    LET word == UNION {[1..m -> {1, 2}] : m \in 0..2}
    IN  {<<w>> : w \in word} \cup {<<v, <<32>>, w>> : v \in word, w \in word}

Inputs ==
    {[builder |-> "words", text |-> t, connected |-> c, sentence |-> <<>>] :
        t \in Texts \cup {TheTeacher}, c \in BOOLEAN}
        \cup {[builder |-> "sentence_to_graph", text |-> <<>>,
               connected |-> TRUE, sentence |-> t] : t \in Sentences}

\* the graph the Trainer is given: words(text, connected) or
\* sentence_to_graph(sentence)
Build(in) ==
    IF in.builder = "words" THEN WordsGraph(in.text, in.connected)
    ELSE sentence_to_graph(in.sentence)

InitBuild ==
    /\ input \in Inputs
    /\ initial = Build(input)
    /\ graph = initial
    /\ merges = <<>>
    /\ num_merges \in 0..MaxK
    /\ MAX_MERGE_SIZE \in MergeSizes
    /\ ONLY_MINIMAL_MERGES \in BOOLEAN
    /\ pc = "loop"
    /\ arg_self = None
    /\ arg_token = None
    /\ arg_merge = <<>>
    /\ results = <<>>

BuildSpec == InitBuild /\ [][Next]_vars

(***************************************************************************)
(* Direct calls of merge: v.merge(token, merge) on a graph, and again on   *)
(* what it returned.  The tuple is a candidate of the graph (any run of    *)
(* any sequence, any tree tuple) or a pair of single-byte tokens; the      *)
(* token is the concatenation of the tuple's bytes or a single-byte token. *)
(***************************************************************************)
Range(s) == {s[k] : k \in 1..Len(s)}

\* ''.join: the token whose bytes are those of the tuple, in order
Joined(merge) == Node(JoinBytes(merge))

InitCall ==
    /\ arg_self \in Graphs
    /\ MAX_MERGE_SIZE = 3
    /\ ONLY_MINIMAL_MERGES = FALSE
    /\ arg_merge \in Range(get_merges(arg_self))
                        \cup {<<a, b>> : a \in Leaf, b \in Leaf}
    /\ arg_token \in {Joined(arg_merge)} \cup Leaf
    /\ results = <<>>
    /\ initial = arg_self
    /\ input = NoInput
    /\ graph = arg_self
    /\ merges = <<>>
    /\ num_merges = 0
    /\ pc = "done"

\* the vertex the next call is made on
Receiver == IF results = <<>> THEN arg_self ELSE results[Len(results)]

CallMerge ==
    /\ Len(results) < MaxCalls
    /\ results' = Append(results, Merge(Receiver, arg_token, arg_merge))
    /\ UNCHANGED <<arg_self, arg_token, arg_merge, trainerVars>>

NextCall == CallMerge

RewriteSpec == InitCall /\ [][NextCall]_vars

(***************************************************************************)
(* Vocabulary of the properties.                                           *)
(***************************************************************************)
\* the number of times x occurs in the list
Occ(x, list) == Cardinality({k \in 1..Len(list) : list[k] = x})

\* f(M): the number of times M is enumerated from g, after filtering
Frequency(M, g) == Occ(M, AllMerges(g))

\* s(M) = (|M| - 1) * f(M)
Score(M, g) == (Len(M) - 1) * Frequency(M, g)

RECURSIVE Leaves(_)
\* |v|: the number of Token leaves of v
Leaves(v) ==
    LET RECURSIVE sum(_, _)
        sum(nodes, n) ==
            IF n = 0 THEN 0 ELSE sum(nodes, n - 1) + Leaves(nodes[n])
    IN  CASE v.kind = "Node" -> 1
          [] v.kind = "NodesSequence" -> sum(v.nodes, Len(v.nodes))
          [] v.kind = "Tree" -> Leaves(v.root) + sum(v.children, Len(v.children))

RECURSIVE Subvertices(_)
\* v and every vertex nested in it
Subvertices(v) ==
    CASE v.kind = "Node" -> {v}
      [] v.kind = "NodesSequence" ->
            {v} \cup UNION {Subvertices(v.nodes[k]) : k \in 1..Len(v.nodes)}
      [] v.kind = "Tree" ->
            {v} \cup Subvertices(v.root)
                \cup UNION {Subvertices(v.children[k]) : k \in 1..Len(v.children)}

\* the sequences nested in v, v included
SequencesOf(v) == {s \in Subvertices(v) : s.kind = "NodesSequence"}

RECURSIVE GreedyStarts(_, _, _)
\* the starts (1-based) of the occurrences of M in nodes that a left-to-right
\* scan without overlap meets, from the index i on
GreedyStarts(nodes, M, i) ==
    IF i + Len(M) - 1 > Len(nodes) THEN {}
    ELSE IF SubSeq(nodes, i, i + Len(M) - 1) = M
         THEN {i} \cup GreedyStarts(nodes, M, i + Len(M))
         ELSE GreedyStarts(nodes, M, i + 1)

RECURSIVE Replaced(_, _)
\* r(M): the number of occurrences of M in v that rewriting replaces: the
\* non-overlapping left-to-right occurrences in each sequence, the trees
\* whose (root, children) tuple is M
Replaced(v, M) ==
    LET RECURSIVE sum(_, _)
        sum(nodes, n) ==
            IF n = 0 THEN 0 ELSE sum(nodes, n - 1) + Replaced(nodes[n], M)
    IN  CASE v.kind = "Node" -> 0
          [] v.kind = "NodesSequence" ->
                LET starts == GreedyStarts(v.nodes, M, 1)
                    covered == {k \in 1..Len(v.nodes) :
                                   \E i \in starts : i <= k /\ k < i + Len(M)}
                    rest == [k \in 1..Len(v.nodes) |->
                                IF k \in covered THEN Node(<<>>) ELSE v.nodes[k]]
                IN  Cardinality(starts) + sum(rest, Len(rest))
          [] v.kind = "Tree" ->
                IF <<v.root>> \o v.children = M THEN 1
                ELSE Replaced(v.root, M) + sum(v.children, Len(v.children))

\* a <= b in the lexicographic order of byte strings
LexLE(a, b) ==
    \E k \in 0..Min(Len(a), Len(b)) :
        /\ \A j \in 1..k : a[j] = b[j]
        /\ \/ k = Len(a)
           \/ k < Len(b) /\ a[k + 1] < b[k + 1]

\* the step is an iteration that records a merge
Records == Len(merges') = Len(merges) + 1

\* the merge that the step records
Recorded == merges'[Len(merges')]

\* the (start, length) pairs of the runs of 2..MAX_MERGE_SIZE children of a
\* sequence of n children
RunPairs(n) ==
    {p \in (1..n) \X (2..Min(MAX_MERGE_SIZE, n)) : p[2] <= n - p[1] + 1}

\* the run of nodes that the pair p names
RunAt(nodes, p) == SubSeq(nodes, p[1], p[1] + p[2] - 1)

\* the tally of the candidates of g by their bytes, as the tests read it
ReadableMerges(g) ==
    {<<JoinBytes(c.key), c.count>> : c \in Range(Counter(get_merges(g)))}

(***************************************************************************)
(* Ideographic description sequences.  A string is the list of its code    *)
(* points; a parse returns the node and the index after it, or raises      *)
(* ValueError.                                                             *)
(***************************************************************************)
\* the longest string parsed
MaxIds == 6

\* U+2FF0, U+2FF1, U+2FF4 .. U+2FFB
BINARY_IDCS == {12272, 12273} \cup 12276..12283

\* U+2FF2, U+2FF3
TERNARY_IDCS == {12274, 12275}

IDSNode(value, children) == [value |-> value, children |-> children]

is_leaf(node) == Len(node.children) = 0

ValueError == [kind |-> "ValueError"]

Parsed(node, index) == [kind |-> "IDSNode", node |-> node, index |-> index]

RECURSIVE parse_node(_, _)
\* parse_node reading two children after every description character
parse_nodeAllBinary(ids, index) ==
    LET RECURSIVE children(_, _, _)
        \* [parse_node() for _ in range(n)], after the nodes parsed so far
        children(nodes, at, n) ==
            IF n = 0 THEN [kind |-> "IDSNodes", nodes |-> nodes, index |-> at]
            ELSE LET child == parse_node(ids, at)
                 IN  IF child = ValueError THEN ValueError
                     ELSE children(Append(nodes, child.node), child.index, n - 1)
        template(char, n) ==
            LET parsed == children(<<>>, index + 1, n)
            IN  IF parsed = ValueError THEN ValueError
                ELSE Parsed(IDSNode(char, parsed.nodes), parsed.index)
    IN  IF index >= Len(ids) THEN ValueError
        ELSE LET char == ids[index + 1]
             IN  IF char \in TERNARY_IDCS \cup BINARY_IDCS THEN template(char, 2)
                 ELSE Parsed(IDSNode(char, <<>>), index + 1)

\* the nested parse_node, the shared index made an argument and a result
parse_node(ids, index) ==
    LET RECURSIVE children(_, _, _)
        \* [parse_node() for _ in range(n)], after the nodes parsed so far
        children(nodes, at, n) ==
            IF n = 0 THEN [kind |-> "IDSNodes", nodes |-> nodes, index |-> at]
            ELSE LET child == parse_node(ids, at)
                 IN  IF child = ValueError THEN ValueError
                     ELSE children(Append(nodes, child.node), child.index, n - 1)
        template(char, n) ==
            LET parsed == children(<<>>, index + 1, n)
            IN  IF parsed = ValueError THEN ValueError
                ELSE Parsed(IDSNode(char, parsed.nodes), parsed.index)
    IN  IF index >= Len(ids) THEN ValueError
        ELSE LET char == ids[index + 1]
             IN  IF char \in TERNARY_IDCS THEN template(char, 3)
                 ELSE IF char \in BINARY_IDCS THEN template(char, 2)
                 ELSE Parsed(IDSNode(char, <<>>), index + 1)

\* parse_ideographic_description_sequences returning the first tree of a
\* string whatever follows it
parse_ideographic_description_sequencesFirst(ids) ==
    IF ids = <<>> THEN ValueError
    ELSE parse_node(ids, 0)

parse_ideographic_description_sequences(ids) ==
    IF ids = <<>> THEN ValueError
    ELSE LET root == parse_node(ids, 0)
         IN  IF root = ValueError THEN ValueError
             ELSE IF root.index < Len(ids) THEN ValueError
             ELSE root

RECURSIVE linearize_preorder(_)
linearize_preorder(node) ==
    LET RECURSIVE extend(_, _)
        extend(result, k) ==
            IF k > Len(node.children) THEN result
            ELSE extend(result \o linearize_preorder(node.children[k]), k + 1)
    IN  IF is_leaf(node) THEN <<node.value>>
        ELSE extend(<<node.value>>, 1)

\* the first and the last description character, the two ternary ones, and
\* a radical (U+4E00)
IdsAlphabet == {12272, 12283, 12274, 12275, 19968}

IdsStrings == UNION {[1..n -> IdsAlphabet] : n \in 0..MaxIds}

InitParse ==
    /\ input \in {[builder |-> "parse_ideographic_description_sequences",
                    text |-> ids, connected |-> TRUE, sentence |-> <<>>] :
                       ids \in IdsStrings}
    /\ results = <<>>
    /\ pc = "parse"
    /\ initial = None
    /\ graph = None
    /\ merges = <<>>
    /\ num_merges = 0
    /\ MAX_MERGE_SIZE = 2
    /\ ONLY_MINIMAL_MERGES = TRUE
    /\ arg_self = None
    /\ arg_token = None
    /\ arg_merge = <<>>

\* tree = parse_ideographic_description_sequences(ids)
CallParse ==
    /\ pc = "parse"
    /\ results' = <<parse_ideographic_description_sequences(input.text)>>
    /\ pc' = IF results'[1] = ValueError THEN "raised" ELSE "parsed"
    /\ UNCHANGED <<graph, merges, num_merges, MAX_MERGE_SIZE,
                   ONLY_MINIMAL_MERGES, initial, input, arg_self, arg_token,
                   arg_merge>>

\* linearize_preorder(tree)
CallLinearize ==
    /\ pc = "parsed"
    /\ results' = Append(results, linearize_preorder(results[1].node))
    /\ pc' = "linearized"
    /\ UNCHANGED <<graph, merges, num_merges, MAX_MERGE_SIZE,
                   ONLY_MINIMAL_MERGES, initial, input, arg_self, arg_token,
                   arg_merge>>

NextParse == CallParse \/ CallLinearize

ParseSpec == InitParse /\ [][NextParse]_vars

(***************************************************************************)
(* C1.  Corpus preservation: after every iteration of Trainer.train, for   *)
(* every initial graph and every K, the bytes of the current graph are the *)
(* bytes of the initial graph.                                             *)
(***************************************************************************)
C1_CorpusPreserved == Bytes(graph) = Bytes(initial)

\* two merges were applied to a sequence that holds a tree
C1_Witness ==
    /\ Len(merges) >= 2
    /\ initial.kind = "NodesSequence"
    /\ \E k \in 1..Len(initial.nodes) : initial.nodes[k].kind = "Tree"
    /\ \A v \in Subvertices(graph) : v.kind # "Tree"

(***************************************************************************)
(* C2.  Monotone compression, as claimed: with Token-only candidates, an   *)
(* iteration that records the merge M lowers the number of Token leaves of *)
(* the graph by exactly f(M) * (|M| - 1), f(M) the number of times M was   *)
(* enumerated in that iteration, overlapping positions included.           *)
(***************************************************************************)
C2_DropIsTallyTimesArity ==
    [][(Records /\ ONLY_MINIMAL_MERGES) =>
          Leaves(graph') =
              Leaves(graph)
                  - Frequency(Recorded.nodes, graph) * (Len(Recorded.nodes) - 1)
      ]_vars

(***************************************************************************)
(* C2, amended.  With Token-only candidates, an iteration that records the *)
(* merge M lowers the number of Token leaves by exactly r(M) * (|M| - 1),  *)
(* where r(M) >= 1 is the number of occurrences that the rewriting         *)
(* replaces: the non-overlapping left-to-right occurrences of M in each    *)
(* Sequence and the Trees whose (root, children) tuple is M.               *)
(***************************************************************************)
C2_DropIsReplacedTimesArity ==
    [][(Records /\ ONLY_MINIMAL_MERGES) =>
          /\ Replaced(graph, Recorded.nodes) >= 1
          /\ Leaves(graph') =
                Leaves(graph)
                    - Replaced(graph, Recorded.nodes) * (Len(Recorded.nodes) - 1)
      ]_vars

\* a,a,a with pairs only: (a,a) is enumerated twice and replaced once
C2_Witness ==
    /\ initial = utf8(<<1, 1, 1>>)
    /\ ONLY_MINIMAL_MERGES
    /\ MAX_MERGE_SIZE = 2
    /\ Len(merges) = 1
    /\ merges[1].nodes = <<Node(<<1>>), Node(<<1>>)>>
    /\ graph = NodesSequence(<<Node(<<1, 1>>), Node(<<1>>)>>)

(***************************************************************************)
(* C3.  Selection: the candidate that an iteration records has the         *)
(* maximum score (|M| - 1) * f(M) among the candidates enumerated from the *)
(* current graph after filtering, f the tally of equal candidate tuples.   *)
(***************************************************************************)
C3_RecordedHasMaxScore ==
    [][Records =>
          /\ Recorded.nodes \in Range(AllMerges(graph))
          /\ \A M \in Range(AllMerges(graph)) :
                Score(M, graph) <= Score(Recorded.nodes, graph)
      ]_vars

\* a,b,b,b with pairs only: (b,b), enumerated twice, is recorded although
\* (a,b) is enumerated first
C3_Witness ==
    /\ initial = utf8(<<1, 2, 2, 2>>)
    /\ MAX_MERGE_SIZE = 2
    /\ Len(merges) >= 1
    /\ merges[1].nodes = <<Node(<<2>>), Node(<<2>>)>>

(***************************************************************************)
(* C4.  Tie-break, as claimed: among the candidates of maximum score the   *)
(* trainer records the one of greater frequency, then the longer one,      *)
(* then the one first in the lexicographic order of its concatenated       *)
(* bytes, whatever the order of enumeration.                               *)
(***************************************************************************)
C4_Preferred(M, X, g) ==
    \/ Frequency(M, g) > Frequency(X, g)
    \/ /\ Frequency(M, g) = Frequency(X, g)
       /\ \/ Len(M) > Len(X)
          \/ Len(M) = Len(X) /\ LexLE(JoinBytes(M), JoinBytes(X))

C4_TieBreakByFrequencyLengthBytes ==
    [][Records =>
          \A X \in Range(AllMerges(graph)) :
              Score(X, graph) = Score(Recorded.nodes, graph)
                  => C4_Preferred(Recorded.nodes, X, graph)
      ]_vars

(***************************************************************************)
(* C4, amended.  Among the candidates of maximum score the trainer records *)
(* the one that was enumerated first: the choice is decided by the order   *)
(* of enumeration, not by frequency, length or bytes.                      *)
(***************************************************************************)
C4_TieBreakByEnumerationOrder ==
    [][Records =>
          \E i \in 1..Len(AllMerges(graph)) :
              /\ AllMerges(graph)[i] = Recorded.nodes
              /\ \A j \in 1..Len(AllMerges(graph)) :
                    Score(AllMerges(graph)[j], graph)
                        <= Score(Recorded.nodes, graph)
              /\ \A j \in 1..(i - 1) :
                    Score(AllMerges(graph)[j], graph)
                        < Score(Recorded.nodes, graph)
      ]_vars

\* b,a,a with pairs only: (b,a) and (a,a) tie, and (b,a), enumerated first,
\* is recorded although the bytes of (a,a) come first
C4_Witness ==
    /\ initial = utf8(<<2, 1, 1>>)
    /\ MAX_MERGE_SIZE = 2
    /\ Len(merges) >= 1
    /\ merges[1].nodes = <<Node(<<2>>), Node(<<1>>)>>

(***************************************************************************)
(* C5.  Merge records: under ONLY_MINIMAL_MERGES true or false, every      *)
(* record (t, M) of merges has t a single Token whose bytes are the        *)
(* concatenation, in order, of the bytes of the elements of M, and the     *)
(* iteration that selects M completes without error.                       *)
(***************************************************************************)
C5_RecordsAreJoinedTokens ==
    /\ pc # "raised"
    /\ \A k \in 1..Len(merges) :
          /\ IsNode(merges[k].token)
          /\ merges[k].token.value = JoinBytes(merges[k].nodes)

(***************************************************************************)
(* C6.  Greedy left-to-right rewriting: a Sequence of n >= 3 equal Tokens  *)
(* a, rewritten with M = (a, a) and the token t, has as children           *)
(* floor(n / 2) copies of t followed by n mod 2 copies of a.               *)
(***************************************************************************)
C6_GreedyLeftToRight ==
    (/\ Len(results) >= 1
     /\ arg_self.kind = "NodesSequence"
     /\ Len(arg_self.nodes) >= 3
     /\ IsNode(arg_self.nodes[1])
     /\ \A k \in 1..Len(arg_self.nodes) : arg_self.nodes[k] = arg_self.nodes[1]
     /\ arg_merge = <<arg_self.nodes[1], arg_self.nodes[1]>>)
        => LET n == Len(arg_self.nodes)
           IN  results[1] =
                   NodesSequence([k \in 1..((n \div 2) + (n % 2)) |->
                                     IF k <= n \div 2 THEN arg_token
                                                      ELSE arg_self.nodes[1]])

\* a,a,a,a,a,a,a rewritten with (a,a) is t,t,t,a
C6_Witness ==
    /\ arg_self = utf8(<<1, 1, 1, 1, 1, 1, 1>>)
    /\ arg_merge = <<Node(<<1>>), Node(<<1>>)>>
    /\ arg_token = Node(<<1, 1>>)
    /\ Len(results) >= 1
    /\ results[1] =
          NodesSequence(<<Node(<<1, 1>>), Node(<<1, 1>>), Node(<<1, 1>>),
                          Node(<<1>>)>>)

(***************************************************************************)
(* C7.  Idempotence of rewrite, as claimed: for any Vertex v, any merge    *)
(* tuple M and any Token t, rewriting the result of rewrite(v, M, t) with  *)
(* M and t again returns it unchanged.                                     *)
(***************************************************************************)
C7_RewriteIdempotent ==
    \A k \in 2..Len(results) : results[k] = results[1]

(***************************************************************************)
(* C7, amended.  For any Vertex v, any merge tuple M over non-empty Tokens *)
(* and the Token t whose bytes are the concatenation of the bytes of M,    *)
(* rewriting the result of rewrite(v, M, t) with M and t again returns it  *)
(* unchanged.                                                              *)
(***************************************************************************)
C7_RewriteIdempotentForJoinedToken ==
    arg_token = Joined(arg_merge)
        => \A k \in 2..Len(results) : results[k] = results[1]

\* a nested graph was rewritten, changed, and rewritten again
C7_Witness ==
    /\ arg_token = Joined(arg_merge)
    /\ Len(results) >= 2
    /\ results[1] # arg_self
    /\ \E v \in Subvertices(arg_self) : v # arg_self /\ ~IsNode(v)

(***************************************************************************)
(* C8.  Minimality (soundness): with ONLY_MINIMAL_MERGES true, every       *)
(* candidate that a Sequence yields at its own level contains only Tokens; *)
(* the two-word graph of 'hi bye' has exactly 7 distinct candidates, none  *)
(* crossing the word boundary.                                             *)
(***************************************************************************)
C8_MinimalRunsAreTokens ==
    ONLY_MINIMAL_MERGES =>
        /\ \A s \in SequencesOf(graph) :
              \A M \in Range(RunsOf(s.nodes, 0)) : AllNodes(M)
        /\ (graph = HiBye /\ MAX_MERGE_SIZE >= 4)
              => Cardinality(Range(get_merges(graph))) = 7

(***************************************************************************)
(* C9.  Enumeration over an all-Token Sequence: a Sequence of n Tokens     *)
(* yields exactly one candidate for each start i and each length m with    *)
(* 2 <= m <= min(MAX_MERGE_SIZE, n - i + 1), and nothing else; 'lalaland'  *)
(* gives {la: 3, al: 2, an: 1, nd: 1} for MAX_MERGE_SIZE = 2 and 8         *)
(* distinct candidates, with lal: 2, ala: 2, lan: 1, and: 1 added, for 3.  *)
(***************************************************************************)
C9_Lalaland2 ==
    {<<(<<108, 97>>), 3>>, <<(<<97, 108>>), 2>>, <<(<<97, 110>>), 1>>,
     <<(<<110, 100>>), 1>>}

C9_Lalaland3 ==
    C9_Lalaland2 \cup
        {<<(<<108, 97, 108>>), 2>>, <<(<<97, 108, 97>>), 2>>,
         <<(<<108, 97, 110>>), 1>>, <<(<<97, 110, 100>>), 1>>}

C9_AllTokenEnumeration ==
    /\ (graph.kind = "NodesSequence" /\ AllNodes(graph.nodes)) =>
          LET nodes == graph.nodes
              got == get_merges(graph)
              pairs == RunPairs(Len(nodes))
          IN  /\ Len(got) = Cardinality(pairs)
              /\ \A p \in pairs :
                    Occ(RunAt(nodes, p), got) =
                        Cardinality({q \in pairs :
                                        RunAt(nodes, q) = RunAt(nodes, p)})
    /\ (graph = Lalaland /\ MAX_MERGE_SIZE = 2)
          => ReadableMerges(graph) = C9_Lalaland2
    /\ (graph = Lalaland /\ MAX_MERGE_SIZE = 3)
          => /\ ReadableMerges(graph) = C9_Lalaland3
             /\ Cardinality(Range(get_merges(graph))) = 8

\* training on 'lalaland' with the default MAX_MERGE_SIZE enumerated the 8
\* candidates, recorded (l,a,l), and left a sequence of tokens
C9_Witness ==
    /\ initial = Lalaland
    /\ MAX_MERGE_SIZE = 3
    /\ Len(merges) = 1
    /\ JoinBytes(merges[1].nodes) = <<108, 97, 108>>
    /\ graph.kind = "NodesSequence"
    /\ AllNodes(graph.nodes)

(***************************************************************************)
(* C10.  Non-minimal enumeration: with ONLY_MINIMAL_MERGES false, every    *)
(* contiguous run of 2..MAX_MERGE_SIZE children of a Sequence is yielded,  *)
(* whatever the kind of the children, in addition to the candidates of     *)
(* each child; the two-word graph of 'hi bye' then has exactly 8 distinct  *)
(* candidates, the whole 'hi bye' among them.                              *)
(***************************************************************************)
RECURSIVE C10_OccInChildren(_, _, _)
C10_OccInChildren(M, nodes, n) ==
    IF n = 0 THEN 0
    ELSE C10_OccInChildren(M, nodes, n - 1) + Occ(M, get_merges(nodes[n]))

C10_NonMinimalEnumeration ==
    ~ONLY_MINIMAL_MERGES =>
        /\ \A s \in SequencesOf(graph) :
              LET nodes == s.nodes
                  got == get_merges(s)
                  pairs == RunPairs(Len(nodes))
                  runs == {RunAt(nodes, p) : p \in pairs}
              IN  \A M \in runs \cup Range(got) :
                      Occ(M, got) =
                          Cardinality({q \in pairs : RunAt(nodes, q) = M})
                              + C10_OccInChildren(M, nodes, Len(nodes))
        /\ (graph = HiBye /\ MAX_MERGE_SIZE >= 4)
              => /\ Cardinality(Range(get_merges(graph))) = 8
                 /\ graph.nodes \in Range(get_merges(graph))

\* training on 'hi bye' without the minimality gate enumerated the 8
\* candidates, recorded ' bye', and left a word beside a token
C10_Witness ==
    /\ initial = HiBye
    /\ ~ONLY_MINIMAL_MERGES
    /\ MAX_MERGE_SIZE = 10
    /\ Len(merges) = 1
    /\ graph = NodesSequence(<<utf8(<<104, 105>>), Node(<<32, 98, 121, 101>>)>>)

(***************************************************************************)
(* C11.  Tree atomicity: the candidates enumerated from a Tree are, as a   *)
(* bag, the candidates of its root, the one tuple (root, child1, ...,      *)
(* childk), and the candidates of each child; nothing is made of a proper  *)
(* subset of the children or of elements of two sibling branches.          *)
(***************************************************************************)
C11_TreesOf(v) == {t \in Subvertices(v) : t.kind = "Tree"}

RECURSIVE C11_LenInChildren(_, _)
C11_LenInChildren(nodes, n) ==
    IF n = 0 THEN 0
    ELSE C11_LenInChildren(nodes, n - 1) + Len(get_merges(nodes[n]))

C11_TreeAtomicity ==
    \A t \in C11_TreesOf(graph) :
        LET got == get_merges(t)
            tuple == <<t.root>> \o t.children
        IN  /\ Len(got) =
                  Len(get_merges(t.root)) + 1
                      + C11_LenInChildren(t.children, Len(t.children))
            /\ \A M \in Range(got) \cup {tuple} :
                  Occ(M, got) =
                      Occ(M, get_merges(t.root))
                          + (IF M = tuple THEN 1 ELSE 0)
                          + C10_OccInChildren(M, t.children, Len(t.children))

\* a tree over a pair of tokens and a token: the pair was merged and the
\* tree, now over two tokens, is still a tree
C11_Witness ==
    /\ initial =
          Tree(Node(<<1>>),
               <<NodesSequence(<<Node(<<1>>), Node(<<2>>)>>), Node(<<2>>)>>)
    /\ Len(merges) = 1
    /\ graph = Tree(Node(<<1>>), <<Node(<<1, 2>>), Node(<<2>>)>>)

(***************************************************************************)
(* C12.  Candidate arity bound, as claimed: every candidate enumerated     *)
(* from the graph, a run of a Sequence or the tuple of a Tree, and every   *)
(* recorded merge, has a length m with 2 <= m <= MAX_MERGE_SIZE.           *)
(***************************************************************************)
C12_ArityWithinMaxMergeSize ==
    /\ \A M \in Range(get_merges(graph)) :
          2 <= Len(M) /\ Len(M) <= MAX_MERGE_SIZE
    /\ \A k \in 1..Len(merges) :
          2 <= Len(merges[k].nodes) /\ Len(merges[k].nodes) <= MAX_MERGE_SIZE

(***************************************************************************)
(* C12, amended.  Every candidate that a Sequence yields at its own level  *)
(* has a length m with 2 <= m <= MAX_MERGE_SIZE; the candidate of a Tree   *)
(* has the length 1 + (the number of its children) >= 2, whatever          *)
(* MAX_MERGE_SIZE is; every candidate and every recorded merge is of one   *)
(* of the two kinds.                                                       *)
(***************************************************************************)
C12_ArityOfRunsWithinMaxMergeSize ==
    /\ \A s \in SequencesOf(graph) :
          \A M \in Range(RunsOf(s.nodes, 0)) :
              2 <= Len(M) /\ Len(M) <= MAX_MERGE_SIZE
    /\ \A M \in Range(get_merges(graph)) :
          /\ 2 <= Len(M)
          /\ \/ Len(M) <= MAX_MERGE_SIZE
             \/ \E t \in C11_TreesOf(graph) : M = <<t.root>> \o t.children
    /\ \A k \in 1..Len(merges) :
          /\ 2 <= Len(merges[k].nodes)
          /\ \/ Len(merges[k].nodes) <= MAX_MERGE_SIZE
             \/ \E t \in C11_TreesOf(initial) :
                    Len(merges[k].nodes) = 1 + Len(t.children)

\* with pairs only, the tuple of a tree of two children was recorded
C12_Witness ==
    /\ MAX_MERGE_SIZE = 2
    /\ initial = Tree(Node(<<1>>), <<Node(<<2>>), Node(<<1>>)>>)
    /\ Len(merges) = 1
    /\ Len(merges[1].nodes) = 3
    /\ graph = Node(<<1, 2, 1>>)

(***************************************************************************)
(* C13.  Forest isolation: when the word pieces of a text are built        *)
(* disconnected, the graph stays a Forest of as many subgraphs as the text *)
(* has pieces in every iteration, each subgraph keeps the bytes of its     *)
(* piece, every enumerated candidate is a candidate of one subgraph, and   *)
(* the bytes of every recorded merge lie within one piece.                 *)
(***************************************************************************)
\* the bytes of a piece: those of its clusters, in order
C13_PieceBytes(piece) ==
    LET RECURSIVE upto(_)
        upto(n) == IF n = 0 THEN <<>> ELSE upto(n - 1) \o piece[n]
    IN  upto(Len(piece))

\* the byte string a occurs in the byte string b
C13_Within(a, b) ==
    \E i \in 0..(Len(b) - Len(a)) : SubSeq(b, i + 1, i + Len(a)) = a

C13_Disconnected ==
    input.builder = "words" /\ ~input.connected /\ Len(input.text) >= 2

C13_ForestIsolation ==
    C13_Disconnected =>
        /\ graph.kind = "UnconnectedGraphs"
        /\ Len(graph.subgraphs) = Len(input.text)
        /\ \A k \in 1..Len(input.text) :
              Bytes(graph.subgraphs[k]) = C13_PieceBytes(input.text[k])
        /\ \A M \in Range(AllMerges(graph)) :
              \E k \in 1..Len(graph.subgraphs) :
                  M \in Range(get_merges(graph.subgraphs[k]))
        /\ \A j \in 1..Len(merges) :
              \E k \in 1..Len(input.text) :
                  C13_Within(JoinBytes(merges[j].nodes),
                             C13_PieceBytes(input.text[k]))

\* two equal pieces of two bytes, disconnected: the pair of bytes was merged
\* in each piece, and the two new tokens were not merged with each other
C13_Witness ==
    /\ input.builder = "words"
    /\ ~input.connected
    /\ input.text = <<Ascii(<<1, 2>>), Ascii(<<1, 2>>)>>
    /\ num_merges >= 2
    /\ pc = "done"
    /\ Len(merges) = 1
    /\ graph = UnconnectedGraphs(<<Node(<<1, 2>>), Node(<<1, 2>>)>>)

(***************************************************************************)
(* C15.  Termination: train stops exactly when |merges| = K or when the    *)
(* filtered candidate set is empty, every iteration that does not stop     *)
(* records one merge, and |merges| never exceeds K.                        *)
(***************************************************************************)
C15_StopsAtCapOrWithoutCandidates ==
    /\ Len(merges) <= num_merges
    /\ pc # "loop" =>
          Len(merges) = num_merges \/ Len(AllMerges(graph)) = 0
    /\ Continues =>
          /\ Reduce(Selected(graph)) # Raised
          /\ Rewrite(graph, Reduce(Selected(graph)), Selected(graph)) # Raised

(***************************************************************************)
(* C16.  Degenerate input: training started on a single Token or on the    *)
(* empty graph never raises, never enters an iteration that records, and   *)
(* leaves merges empty and the graph as it was.                            *)
(***************************************************************************)
C16_Degenerate == IsNode(initial) \/ initial = NodesSequence(<<>>)

C16_DegenerateInput ==
    C16_Degenerate =>
        /\ pc # "raised"
        /\ ~Continues
        /\ merges = <<>>
        /\ graph = initial

\* train(K) with K > 0 returned on the graph of the empty text
C16_Witness ==
    /\ input.builder = "words"
    /\ input.text = <<>>
    /\ initial = NodesSequence(<<>>)
    /\ num_merges > 0
    /\ pc = "done"

(***************************************************************************)
(* C17.  Structural invariant: every Sequence of a graph that a builder    *)
(* returns, for any text, the empty one included, or that rewriting        *)
(* produces, has at least 2 children, and every Tree at least 1; words of  *)
(* a text of one piece is utf8_clusters of that piece.                     *)
(***************************************************************************)
\* the subgraphs of a Forest, any other graph itself
C17_Parts(g) ==
    IF g.kind = "UnconnectedGraphs" THEN Range(g.subgraphs) ELSE {g}

C17_SequencesHaveTwoChildren ==
    /\ \A g \in C17_Parts(graph) :
          /\ \A v \in SequencesOf(g) : Len(v.nodes) >= 2
          /\ \A t \in C11_TreesOf(g) : Len(t.children) >= 1
    /\ (input.builder = "words" /\ Len(input.text) = 1)
          => initial = utf8_clusters(input.text[1])

C18_AdjacentIn(M, g) ==
    \E v \in SequencesOf(g) :
        \E i \in 1..(Len(v.nodes) - 1) : SubSeq(v.nodes, i, i + 1) = M

RECURSIVE C19_TreeCount(_)
\* the number of Trees in v
C19_TreeCount(v) ==
    LET RECURSIVE sum(_, _)
        sum(nodes, n) ==
            IF n = 0 THEN 0 ELSE sum(nodes, n - 1) + C19_TreeCount(nodes[n])
    IN  CASE v.kind = "Node" -> 0
          [] v.kind = "NodesSequence" -> sum(v.nodes, Len(v.nodes))
          [] v.kind = "Tree" ->
                1 + C19_TreeCount(v.root) + sum(v.children, Len(v.children))

RECURSIVE C19_TokenTrees(_, _)
\* the number of Trees in v over Tokens only whose tuple is M
C19_TokenTrees(v, M) ==
    LET RECURSIVE sum(_, _)
        sum(nodes, n) ==
            IF n = 0 THEN 0 ELSE sum(nodes, n - 1) + C19_TokenTrees(nodes[n], M)
    IN  CASE v.kind = "Node" -> 0
          [] v.kind = "NodesSequence" -> sum(v.nodes, Len(v.nodes))
          [] v.kind = "Tree" ->
                (IF <<v.root>> \o v.children = M /\ AllNodes(M) THEN 1 ELSE 0)
                    + C19_TokenTrees(v.root, M) + sum(v.children, Len(v.children))

C19_BottomUpTreeMerging ==
    [][/\ graph \in Nests =>
             get_merges(graph) =
                 << <<graph.root>> \o graph.children,
                    <<graph.children[2].root>> \o graph.children[2].children >>
       /\ Records =>
             C19_TreeCount(graph') =
                 C19_TreeCount(graph) - C19_TokenTrees(graph, Recorded.nodes)
       /\ (Records /\ graph \in Nests /\ ONLY_MINIMAL_MERGES) =>
             LET inner == graph.children[2]
                 t == Node(Bytes(inner.root) \o Bytes(inner.children[1])
                               \o Bytes(inner.children[2]))
             IN  /\ Recorded =
                       [token |-> t, nodes |-> <<inner.root>> \o inner.children]
                 /\ graph' = Tree(graph.root, <<graph.children[1], t>>)
      ]_vars

\* K = 1 on Tree(a, [b, Tree(a, [b, a])]): the inner tree became the token aba
C19_Witness ==
    /\ initial =
          Tree(Node(<<1>>),
               <<Node(<<2>>), Tree(Node(<<1>>), <<Node(<<2>>), Node(<<1>>)>>)>>)
    /\ ONLY_MINIMAL_MERGES
    /\ num_merges = 1
    /\ pc = "done"
    /\ Len(merges) = 1
    /\ graph = Tree(Node(<<1>>), <<Node(<<2>>), Node(<<1, 2, 1>>)>>)

(***************************************************************************)
(* C20.  IDS parse structure and round trip: in the tree returned for an   *)
(* accepted string every node whose value is U+2FF2 or U+2FF3 has exactly  *)
(* 3 children, every node whose value is another description character of  *)
(* U+2FF0..U+2FFB has exactly 2, every other node is a leaf, and the       *)
(* preorder traversal of the tree is the string, character for character.  *)
(***************************************************************************)
RECURSIVE C20_NodesOf(_)
\* the nodes of a tree
C20_NodesOf(node) ==
    {node} \cup UNION {C20_NodesOf(node.children[k]) :
                          k \in 1..Len(node.children)}

C21_Operands(char) ==
    IF char \in {12274, 12275} THEN 3
    ELSE IF char \in 12272..12283 THEN 2
    ELSE 0

RECURSIVE C21_Open(_, _)
\* the number of operands still to be read after the first n characters
C21_Open(ids, n) ==
    IF n = 0 THEN 1 ELSE C21_Open(ids, n - 1) - 1 + C21_Operands(ids[n])

C21_EndsEarly(ids) ==
    /\ ids # <<>>
    /\ \A n \in 1..Len(ids) : C21_Open(ids, n) > 0

C21_LeftOver(ids) == \E n \in 1..(Len(ids) - 1) : C21_Open(ids, n) = 0

C21_ParseErrors ==
    pc # "parse" =>
        IF \/ input.text = <<>>
           \/ C21_EndsEarly(input.text)
           \/ C21_LeftOver(input.text)
        THEN pc = "raised" /\ results = <<ValueError>>
        ELSE pc \in {"parsed", "linearized"} /\ results[1].kind = "IDSNode"

\* a ternary description character with two operands only
C21_Witness ==
    /\ input.text = <<12274, 19968, 19968>>
    /\ pc = "raised"
    /\ results = <<ValueError>>

(***************************************************************************)
(* C22.  Configuration error: a MAX_MERGE_SIZE below 2 is rejected before  *)
(* training starts, so no iteration of train enumerates candidates with    *)
(* MAX_MERGE_SIZE < 2.                                                     *)
(***************************************************************************)
\* train is at an iteration that enumerates the candidates
C22_Enumerates == pc = "loop" /\ Len(merges) < num_merges

C22_NoIterationBelowTwo ==
    [][C22_Enumerates => MAX_MERGE_SIZE >= 2]_vars

(***************************************************************************)
(* C23.  Minimality (completeness): with ONLY_MINIMAL_MERGES true, a run   *)
(* of m children of a Sequence, 2 <= m <= MAX_MERGE_SIZE, is yielded as a  *)
(* candidate whenever all of its elements are Tokens, whatever the kind of *)
(* the child before or after the run.                                      *)
(***************************************************************************)
C23_TokenRunsAreYielded ==
    ONLY_MINIMAL_MERGES =>
        \A s \in SequencesOf(graph) :
            \A i \in 1..Len(s.nodes) :
                \A m \in 2..MAX_MERGE_SIZE :
                    (i + m - 1 <= Len(s.nodes)
                        /\ AllNodes(SubSeq(s.nodes, i, i + m - 1)))
                    => SubSeq(s.nodes, i, i + m - 1) \in Range(get_merges(s))

(***************************************************************************)
(* C24.  Rewrite completeness: after rewrite(v, M, t), M a tuple of        *)
(* non-empty Tokens and bytes(t) the concatenation of M, no Sequence of    *)
(* the result contains M as a contiguous run and no Tree of the result has *)
(* M as its (root, children) tuple, at any nesting depth.                  *)
(***************************************************************************)
\* M is a contiguous run of a Sequence of v or the tuple of a Tree of v
C24_Occurs(M, v) ==
    \/ \E s \in SequencesOf(v) :
            \E i \in 1..Len(s.nodes) :
                /\ i + Len(M) - 1 <= Len(s.nodes)
                /\ SubSeq(s.nodes, i, i + Len(M) - 1) = M
    \/ \E t \in C11_TreesOf(v) : <<t.root>> \o t.children = M

C24_RewriteComplete ==
    (/\ Len(results) >= 1
     /\ AllNodes(arg_merge)
     /\ arg_token = Joined(arg_merge))
        => ~C24_Occurs(arg_merge, results[1])

\* a,b,(a,b) rewritten with (a,b): the run and the nested Sequence both
\* became the token ab
C24_Witness ==
    /\ arg_self =
          NodesSequence(<<Node(<<1>>), Node(<<2>>),
                          NodesSequence(<<Node(<<1>>), Node(<<2>>)>>)>>)
    /\ arg_merge = <<Node(<<1>>), Node(<<2>>)>>
    /\ arg_token = Node(<<1, 2>>)
    /\ Len(results) >= 1
    /\ results[1] = NodesSequence(<<Node(<<1, 2>>), Node(<<1, 2>>)>>)

(***************************************************************************)
(* C25.  Full collapse on exhaustion: with Token-only candidates, when     *)
(* train stops with fewer than K merges recorded, because no candidate     *)
(* remains, the graph is a single Token whose bytes are the whole corpus;  *)
(* equivalently, a graph that is not a single Token always has a           *)
(* Token-only candidate.                                                   *)
(***************************************************************************)
C25_FullCollapseOnExhaustion ==
    ONLY_MINIMAL_MERGES =>
        /\ (pc = "done" /\ Len(merges) < num_merges) =>
              /\ IsNode(graph)
              /\ graph.value = Bytes(initial)
        /\ ~IsNode(graph) => OnlyNodes(AllMerges(graph)) # <<>>

\* a Tree with a Sequence as a child collapsed to one Token in two merges,
\* with K = 3
C25_Witness ==
    /\ ONLY_MINIMAL_MERGES
    /\ pc = "done"
    /\ initial \in Trees
    /\ \E s \in SequencesOf(initial) : TRUE
    /\ Len(merges) = 2
    /\ num_merges = 3
    /\ IsNode(graph)
    /\ graph.value = Bytes(initial)

(***************************************************************************)
(* C26.  Append-only merge list with a cumulative cap: across iterations   *)
(* and across repeated calls of train on the same Trainer, a step leaves   *)
(* the recorded entries as they are and appends at most one at the end;    *)
(* an entry is recorded only while fewer than num_merges are recorded, so  *)
(* a call train(K) made when |merges| >= K records nothing and leaves the  *)
(* graph unchanged.                                                        *)
(***************************************************************************)
C26_AppendOnlyCumulativeCap ==
    [][/\ Len(merges) <= Len(merges')
       /\ Len(merges') <= Len(merges) + 1
       /\ SubSeq(merges', 1, Len(merges)) = merges
       /\ Records => Len(merges') <= num_merges
       /\ (pc = "loop" /\ Len(merges) >= num_merges) =>
             /\ pc' = "done"
             /\ merges' = merges
             /\ graph' = graph
      ]_vars

\* after two merges, train(1) was called and returned: nothing was recorded
\* and the graph is as the call found it
C26_Witness ==
    /\ Len(results) = 1
    /\ Len(results[1].merges) = 2
    /\ num_merges = 1
    /\ pc = "done"
    /\ merges = results[1].merges
    /\ graph = results[1].graph

(***************************************************************************)
(* C27.  No merge is recorded twice, as claimed: with Token-only           *)
(* candidates the candidate tuples of the merge list are pairwise          *)
(* distinct.                                                               *)
(***************************************************************************)
C27_NoMergeRecordedTwice ==
    ONLY_MINIMAL_MERGES =>
        \A i \in 1..Len(merges) :
            \A j \in (i + 1)..Len(merges) : merges[i].nodes # merges[j].nodes

(***************************************************************************)
(* C27, amended.  With Token-only candidates, the tuple that an iteration  *)
(* records is not among the Token-only candidates of the graph that the    *)
(* iteration leaves, and it differs from the tuple of the entry recorded   *)
(* just before it.                                                         *)
(***************************************************************************)
C27_NotRecordedTwiceInARow ==
    [][(Records /\ ONLY_MINIMAL_MERGES) =>
          /\ Recorded.nodes \notin Range(OnlyNodes(AllMerges(graph')))
          /\ Len(merges) >= 1 => merges[Len(merges)].nodes # Recorded.nodes
      ]_vars

\* on ((d (x d) d) ((d x) d d)) with pairs only, the sixth merge (dxd, d)
\* follows (dx, d), and is the third merge again
C27_Witness ==
    /\ initial = Twice
    /\ MAX_MERGE_SIZE = 2
    /\ ONLY_MINIMAL_MERGES
    /\ Len(merges) = 6
    /\ merges[5].nodes = <<Node(<<2, 1>>), Node(<<2>>)>>
    /\ merges[6].nodes = <<Node(<<2, 1, 2>>), Node(<<2>>)>>
    /\ merges[3].nodes = merges[6].nodes

====
